---- MODULE Spec2Model ----
(***************************************************************************)
(* Cart state of the super-app client.                                     *)
(*                                                                         *)
(* ShoppingScreen (src/app/(tabs)/profile.tsx, second module of the file)  *)
(* keeps `cart`, a list of {product, quantity} lines keyed by product.id,  *)
(* and renders the badge value totalCartItems.                             *)
(* CartScreen (src/app/(auth)/Login.tsx, second module of the file) keeps  *)
(* `cartItems`, a list of {id, price, quantity} lines keyed by id, and     *)
(* renders totalAmount.                                                    *)
(*                                                                         *)
(* Every handler calls setState with an updater function (prev => ...).    *)
(* An action of the model is one handler call together with the re-render  *)
(* that React performs for it: the updater is applied to the current       *)
(* state and the derived values of the render are recomputed.              *)
(*                                                                         *)
(* Prices are JavaScript numbers in the source (109.95); the model keeps   *)
(* them as integer cents (10995).                                          *)
(***************************************************************************)
EXTENDS Integers, Sequences, FiniteSets, TLC

VARIABLES
    cart,            \* ShoppingScreen: useState<CartItem[]>([])
    totalCartItems,  \* ShoppingScreen: badge value of the current render
    cartItems,       \* CartScreen: useState(initialCartItems)
    totalAmount,     \* CartScreen: total of the current render (cents)
    alert,           \* title of the last dialog raised with Alert.alert
    shopLast,        \* history: last ShoppingScreen handler call
    shopLast2,       \* history: the ShoppingScreen handler call before it
    shopScript,      \* history: how far the calls so far follow Scenario
    cartLast,        \* history: last CartScreen handler call
    searchQuery,     \* ShoppingScreen: useState('')
    selected,        \* PaymentsScreen: useState('upi')
    payForm,         \* PaymentsScreen: the six text states (upiId, ...)
    loading,         \* PaymentsScreen: useState(false)
    paymentFailed,   \* PaymentsScreen: useState(false)
    qrModal,         \* PaymentsScreen: useState(false)
    timers,          \* PaymentsScreen: setTimeout callbacks not yet run
    payEvents,       \* history: the last two of Pay, timer, Try Again
    contactsData,    \* CONTACTS_DATA, whose chat arrays handleSend mutates
    chatId,          \* ChatScreen: route parameter id, "none" if unmounted
    messages,        \* ChatScreen: useState(contact?.chat ?? [])
    inputText,       \* ChatScreen: useState('')
    aliased,         \* ChatScreen: messages is the array contact.chat
    now,             \* reading of the device clock
    sendLast,        \* history: the handleSend call of the last step
    route,           \* the screen the router shows
    credentials,     \* LoginScreen: useState({username: '', password: ''})
    form,            \* SignupScreen: useState({email: '', ...})
    authLast,        \* history: the last press that led to the home tab
    batchScreen,     \* the screen whose handlers were called last
    batchCalls,      \* the handler calls since the last render but one
    batchPending,    \* the updaters of batchCalls wait for the render
    issued,          \* history: the calls applied one by one as issued
    resetForm,       \* ForgotPasswordScreen: the three text states
    resetLast,       \* history: the handleReset call of the last step
    expandedIndexes, \* FAQScreen: useState<number[]>([])
    faqLast,         \* history: the last toggleExpand call
    paymentPage      \* history: the last push of the payment page

shopVars == <<cart, totalCartItems, searchQuery,
              shopLast, shopLast2, shopScript>>
cartVars == <<cartItems, totalAmount, cartLast>>

payVars == <<selected, payForm, loading, paymentFailed, qrModal, timers,
             payEvents>>

\* The state of the screens other than ShoppingScreen and CartScreen.
chatVars == <<contactsData, chatId, messages, inputText, aliased, now,
              sendLast>>

authVars == <<route, credentials, form, authLast>>

batchVars == <<batchScreen, batchCalls, batchPending, issued>>

resetVars == <<resetForm, resetLast>>

faqVars == <<expandedIndexes, faqLast>>

\* The state that only ForgotPasswordScreen, FAQScreen and the Payment
\* button of CartScreen use.
moreVars == <<resetVars, faqVars, paymentPage>>

otherVars == <<payVars, chatVars, authVars, batchVars, moreVars>>

vars == <<shopVars, cartVars, alert, otherVars>>

(***************************************************************************)
(* Bounds of the model.                                                    *)
(***************************************************************************)
\* The handlers put no upper limit on a quantity; the model stops
\* incrementing a line at MaxQty.
MaxQty == 2

(***************************************************************************)
(* Inputs.                                                                 *)
(***************************************************************************)
\* Products handed to addToCart (the catalog module data/shopData is a
\* collaborator of the screen): identity and unit price in cents.
Products == { [id |-> 1, price |-> 1000], [id |-> 2, price |-> 550] }

\* productId arguments of ShoppingScreen.decreaseQuantity / removeFromCart.
ProductIds == { p.id : p \in Products }

\* The seeded CartScreen lines.
initialCartItems ==
    << [id |-> "1", price |-> 10995, quantity |-> 1],
       [id |-> "2", price |-> 1599,  quantity |-> 1],
       [id |-> "3", price |-> 16800, quantity |-> 1] >>

\* id arguments of the CartScreen handlers: the ids of the lines the screen
\* has rendered at some time.  A press that was issued on a row that has
\* been removed since reaches the handler with an id no line carries.
CartIds == { initialCartItems[i].id : i \in 1..Len(initialCartItems) }

(***************************************************************************)
(* Array helpers with the meaning of Array.prototype.map / filter / some.  *)
(***************************************************************************)
HasProduct(lines, productId) ==
    \E i \in 1..Len(lines) : lines[i].product.id = productId

HasId(lines, id) ==
    \E i \in 1..Len(lines) : lines[i].id = id

(***************************************************************************)
(* ShoppingScreen                                                          *)
(***************************************************************************)
\* Faulty variant: appends a line without looking for an existing one.
addToCartAlwaysAppend(prev, product) ==
    Append(prev, [product |-> product, quantity |-> 1])

\* Faulty variant: finds the existing line but forgets the + 1.
addToCartNoIncrement(prev, product) ==
    IF HasProduct(prev, product.id)
    THEN prev
    ELSE Append(prev, [product |-> product, quantity |-> 1])

\* Faulty variant: a new line is put in front, [{product, ...}, ...prev].
addToCartPrepends(prev, product) ==
    IF HasProduct(prev, product.id)
    THEN [i \in 1..Len(prev) |->
            IF prev[i].product.id = product.id
            THEN [prev[i] EXCEPT !.quantity = prev[i].quantity + 1]
            ELSE prev[i]]
    ELSE <<[product |-> product, quantity |-> 1]>> \o prev

\* setCart updater of addToCart.
addToCartUpdate(prev, product) ==
    IF HasProduct(prev, product.id)
    THEN [i \in 1..Len(prev) |->
            IF prev[i].product.id = product.id
            THEN [prev[i] EXCEPT !.quantity = prev[i].quantity + 1]
            ELSE prev[i]]
    ELSE Append(prev, [product |-> product, quantity |-> 1])

\* Faulty variant: the filter after the map is missing.
shopDecreaseNoFilter(prev, productId) ==
    [i \in 1..Len(prev) |->
        IF prev[i].product.id = productId
        THEN [prev[i] EXCEPT !.quantity = prev[i].quantity - 1]
        ELSE prev[i]]

\* Faulty variant: the filter drops a line one step early (quantity > 1).
shopDecreaseDropsAtOne(prev, productId) ==
    SelectSeq([i \in 1..Len(prev) |->
                 IF prev[i].product.id = productId
                 THEN [prev[i] EXCEPT !.quantity = prev[i].quantity - 1]
                 ELSE prev[i]],
              LAMBDA item : item.quantity > 1)

\* Faulty variant: ShoppingScreen is given the policy of CartScreen, the
\* quantity stops at 1 and no line is filtered out.
shopDecreaseClampsAtOne(prev, productId) ==
    [i \in 1..Len(prev) |->
        IF prev[i].product.id = productId
        THEN LET newQuantity == prev[i].quantity - 1
             IN  [prev[i] EXCEPT
                    !.quantity = IF newQuantity > 0 THEN newQuantity ELSE 1]
        ELSE prev[i]]

\* setCart updater of decreaseQuantity: map, then filter quantity > 0.
shopDecreaseUpdate(prev, productId) ==
    SelectSeq([i \in 1..Len(prev) |->
                 IF prev[i].product.id = productId
                 THEN [prev[i] EXCEPT !.quantity = prev[i].quantity - 1]
                 ELSE prev[i]],
              LAMBDA item : item.quantity > 0)

\* Faulty variant: when the product has a line, the last line is dropped
\* (pop) and not the line of the product.
removeFromCartPopsLast(prev, productId) ==
    IF HasProduct(prev, productId)
    THEN SubSeq(prev, 1, Len(prev) - 1)
    ELSE prev

\* setCart updater of removeFromCart.
removeFromCartUpdate(prev, productId) ==
    SelectSeq(prev, LAMBDA item : item.product.id # productId)

\* Faulty variant: counts lines instead of adding quantities.
RECURSIVE totalCartItemsCountsLines(_)
totalCartItemsCountsLines(lines) ==
    IF lines = << >> THEN 0
    ELSE totalCartItemsCountsLines(SubSeq(lines, 1, Len(lines) - 1)) + 1

\* cart.reduce((sum, item) => sum + item.quantity, 0)
RECURSIVE totalCartItemsOf(_)
totalCartItemsOf(lines) ==
    IF lines = << >> THEN 0
    ELSE totalCartItemsOf(SubSeq(lines, 1, Len(lines) - 1))
         + lines[Len(lines)].quantity

\* What find returns when no line passes the test; it is the one falsy
\* value a cartItem can have.
undefined == [undefined |-> TRUE]

\* Faulty variant: find is given no test of the id and takes the first line.
getCartItemTakesFirstLine(lines, productId) ==
    IF lines # << >> THEN lines[1] ELSE undefined

\* getCartItem(productId): the first line of the product, or nothing.
getCartItem(lines, productId) ==
    IF HasProduct(lines, productId)
    THEN lines[CHOOSE i \in 1..Len(lines) :
                  /\ lines[i].product.id = productId
                  /\ \A j \in 1..(i - 1) : lines[j].product.id # productId]
    ELSE undefined

\* renderProductCard: const inCart = !!cartItem decides between the
\* quantity controls and the Add to Cart button of the card of item.
inCart(item) == getCartItem(cart, item.id) # undefined

\* The quantity the controls of the card show: cartItem.quantity.
shownQuantity(item) == getCartItem(cart, item.id).quantity

\* {totalCartItems > 0 && (<View style={styles.cartBadge}> ...)}
cartBadgeShown == totalCartItems > 0

\* Faulty variant: the totals are taken by popping the lines off the cart.
ShopRenderConsumesCart(newCart) ==
    /\ cart' = << >>
    /\ totalCartItems' = totalCartItemsOf(newCart)

\* The render of ShoppingScreen after a state change.
ShopRender(newCart) ==
    /\ cart' = newCart
    /\ totalCartItems' = totalCartItemsOf(newCart)

\* The call sequence of the worked example: add 1, add 1, add 2,
\* decrease 1, decrease 1 on a freshly mounted ShoppingScreen.
Scenario ==
    << [op |-> "add", id |-> 1], [op |-> "add", id |-> 1],
       [op |-> "add", id |-> 2], [op |-> "decrease", id |-> 1],
       [op |-> "decrease", id |-> 1] >>

\* History only: remembers the call and the cart it was applied to.
\* shopScript = k says that exactly k calls were made since the mount and
\* that they are the first k calls of Scenario; -1 says they are not.
ShopRecord(op, id) ==
    /\ shopLast' = [op |-> op, id |-> id, prev |-> cart]
    /\ shopLast2' = shopLast
    /\ shopScript' =
          IF /\ shopScript >= 0
             /\ shopScript < Len(Scenario)
             /\ Scenario[shopScript + 1] = [op |-> op, id |-> id]
          THEN shopScript + 1
          ELSE -1

addToCart(product) ==
    /\ \A i \in 1..Len(cart) :
          cart[i].product.id = product.id => cart[i].quantity < MaxQty
    /\ ShopRender(addToCartUpdate(cart, product))
    /\ alert' = "Added to Cart"
    /\ ShopRecord("add", product.id)
    /\ UNCHANGED <<searchQuery, cartVars>>
    /\ UNCHANGED otherVars

shopDecreaseQuantity(productId) ==
    /\ ShopRender(shopDecreaseUpdate(cart, productId))
    /\ ShopRecord("decrease", productId)
    /\ UNCHANGED <<searchQuery, cartVars, alert>>
    /\ UNCHANGED otherVars

removeFromCart(productId) ==
    /\ ShopRender(removeFromCartUpdate(cart, productId))
    /\ alert' = "Removed from Cart"
    /\ ShopRecord("remove", productId)
    /\ UNCHANGED <<searchQuery, cartVars>>
    /\ UNCHANGED otherVars

\* Texts typed into the search box.
SearchQueries == { "", "bag" }

\* onChangeText={setSearchQuery}: the cart state is kept and the screen is
\* rendered again, which computes totalCartItems once more.  Setting the
\* text the state already holds renders nothing.
setSearchQuery(text) ==
    /\ text # searchQuery
    /\ searchQuery' = text
    /\ ShopRender(cart)
    /\ UNCHANGED <<shopLast, shopLast2, shopScript, cartVars, alert>>
    /\ UNCHANGED otherVars

(***************************************************************************)
(* CartScreen                                                              *)
(***************************************************************************)
\* Faulty variant: the test of the id is missing, every line grows.
increaseQuantityOfAllLines(prev, id) ==
    [i \in 1..Len(prev) |->
        [prev[i] EXCEPT !.quantity = prev[i].quantity + 1]]

\* setCartItems updater of increaseQuantity.
increaseQuantityUpdate(prev, id) ==
    [i \in 1..Len(prev) |->
        IF prev[i].id = id
        THEN [prev[i] EXCEPT !.quantity = prev[i].quantity + 1]
        ELSE prev[i]]

\* Faulty variant: no clamp, the quantity is newQuantity as it is.
cartDecreaseNoClamp(prev, id) ==
    [i \in 1..Len(prev) |->
        IF prev[i].id = id
        THEN [prev[i] EXCEPT !.quantity = prev[i].quantity - 1]
        ELSE prev[i]]

\* Faulty variant: the test is newQuantity >= 0, so 0 passes.
cartDecreaseClampsAtZero(prev, id) ==
    [i \in 1..Len(prev) |->
        IF prev[i].id = id
        THEN LET newQuantity == prev[i].quantity - 1
             IN  [prev[i] EXCEPT
                    !.quantity = IF newQuantity >= 0 THEN newQuantity ELSE 1]
        ELSE prev[i]]

\* Faulty variant: item.quantity is written where newQuantity is meant.
cartDecreaseKeepsQuantity(prev, id) ==
    [i \in 1..Len(prev) |->
        IF prev[i].id = id
        THEN LET newQuantity == prev[i].quantity - 1
             IN  [prev[i] EXCEPT
                    !.quantity = IF newQuantity > 0 THEN prev[i].quantity
                                                    ELSE 1]
        ELSE prev[i]]

\* setCartItems updater of decreaseQuantity: newQuantity > 0 ? newQuantity : 1
cartDecreaseUpdate(prev, id) ==
    [i \in 1..Len(prev) |->
        IF prev[i].id = id
        THEN LET newQuantity == prev[i].quantity - 1
             IN  [prev[i] EXCEPT
                    !.quantity = IF newQuantity > 0 THEN newQuantity ELSE 1]
        ELSE prev[i]]

\* Faulty variant: removes by position, splice(findIndex(...), 1); the
\* position of an id that is not found is -1, which splice counts from the
\* end of the array.
removeItemBySplice(prev, id) ==
    IF HasId(prev, id)
    THEN SelectSeq(prev, LAMBDA item : item.id # id)
    ELSE SubSeq(prev, 1, Len(prev) - 1)

\* setCartItems updater of removeItem.
removeItemUpdate(prev, id) ==
    SelectSeq(prev, LAMBDA item : item.id # id)

\* Faulty variant: the quantity is left out of the product.
RECURSIVE totalAmountIgnoresQuantity(_)
totalAmountIgnoresQuantity(lines) ==
    IF lines = << >> THEN 0
    ELSE totalAmountIgnoresQuantity(SubSeq(lines, 1, Len(lines) - 1))
         + lines[Len(lines)].price

\* cartItems.reduce((sum, item) => sum + item.price * item.quantity, 0)
RECURSIVE totalAmountOf(_)
totalAmountOf(lines) ==
    IF lines = << >> THEN 0
    ELSE totalAmountOf(SubSeq(lines, 1, Len(lines) - 1))
         + lines[Len(lines)].price * lines[Len(lines)].quantity

\* Faulty variant: the total is not recomputed when the list is empty.
CartRenderKeepsTotalWhenEmpty(newItems) ==
    /\ cartItems' = newItems
    /\ totalAmount' = IF newItems = << >> THEN totalAmount
                                          ELSE totalAmountOf(newItems)

\* The render of CartScreen after a state change.
CartRender(newItems) ==
    /\ cartItems' = newItems
    /\ totalAmount' = totalAmountOf(newItems)

\* History only: remembers the call and the list it was applied to.
CartRecord(op, id) ==
    cartLast' = [op |-> op, id |-> id, prev |-> cartItems]

increaseQuantity(id) ==
    /\ \A i \in 1..Len(cartItems) :
          cartItems[i].id = id => cartItems[i].quantity < MaxQty
    /\ CartRender(increaseQuantityUpdate(cartItems, id))
    /\ CartRecord("increase", id)
    /\ UNCHANGED <<shopVars, alert>>
    /\ UNCHANGED otherVars

cartDecreaseQuantity(id) ==
    /\ CartRender(cartDecreaseUpdate(cartItems, id))
    /\ CartRecord("decrease", id)
    /\ UNCHANGED <<shopVars, alert>>
    /\ UNCHANGED otherVars

removeItem(id) ==
    /\ CartRender(removeItemUpdate(cartItems, id))
    /\ alert' = "Removed"
    /\ CartRecord("remove", id)
    /\ UNCHANGED shopVars
    /\ UNCHANGED otherVars

(***************************************************************************)
(* Specification                                                           *)
(***************************************************************************)
NoShopCall == [op |-> "none", id |-> 0, prev |-> << >>]
NoCartCall == [op |-> "none", id |-> "", prev |-> << >>]

\* The first two contacts of CONTACTS_DATA, with the fields ChatScreen's
\* state depends on (id and chat).
CONTACTS_DATA ==
    << [id |-> "1",
        chat |-> << [id |-> "1", message |-> "Hey George!",
                     timestamp |-> "2025-05-27T10:00:00Z", fromMe |-> TRUE],
                    [id |-> "2", message |-> "Hi! How are you?",
                     timestamp |-> "2025-05-27T10:02:00Z", fromMe |-> FALSE] >>],
       [id |-> "2",
        chat |-> << [id |-> "1", message |-> "Meeting at 5?",
                     timestamp |-> "2025-05-27T09:15:00Z", fromMe |-> TRUE],
                    [id |-> "2", message |-> "Sure. See you there!",
                     timestamp |-> "2025-05-27T09:17:00Z", fromMe |-> FALSE] >>] >>

\* The reading of Date.now() when the session starts.  Readings count
\* milliseconds; the value is scaled down to fit the integers of the
\* model, which changes the digits of an id and not whether two ids are
\* equal.
ClockBase == 1748340000

\* useState initialisers of PaymentsScreen.
NoPayText ==
    [upiId |-> "", amount |-> "", cardNumber |-> "", cardExpiry |-> "",
     cardCvv |-> "", wallet |-> ""]

InitPayments ==
    /\ payEvents = << >>
    /\ selected = "upi"
    /\ payForm = NoPayText
    /\ loading = FALSE
    /\ paymentFailed = FALSE
    /\ qrModal = FALSE
    /\ timers = 0

\* History only: the last step was no call of handleSend.
NoSend ==
    [op |-> "none", text |-> "", found |-> FALSE, messages |-> << >>,
     data |-> << >>]

\* The module data as loaded, no ChatScreen mounted.
InitChat ==
    /\ sendLast = NoSend
    /\ contactsData = CONTACTS_DATA
    /\ chatId = "none"
    /\ messages = << >>
    /\ inputText = ""
    /\ aliased = FALSE
    /\ now = ClockBase

\* useState initialisers of LoginScreen and SignupScreen.
NoCredentials == [username |-> "", password |-> ""]

NoForm ==
    [email |-> "", username |-> "", firstName |-> "", lastName |-> "",
     phone |-> "", password |-> ""]

\* The index route of the (auth) group, WelcomeScreen, is shown.
InitAuth ==
    /\ route = "welcome"
    /\ credentials = NoCredentials
    /\ form = NoForm
    /\ authLast = [op |-> "none", fields |-> NoCredentials]

\* No handler call waits for a render.
InitBatch ==
    /\ batchScreen = "none"
    /\ batchCalls = << >>
    /\ batchPending = FALSE
    /\ issued = << >>

\* useState initialisers of ForgotPasswordScreen.
NoResetForm == [email |-> "", newPassword |-> "", confirmPassword |-> ""]

NoReset == [op |-> "none", fields |-> NoResetForm]

InitReset ==
    /\ resetForm = NoResetForm
    /\ resetLast = NoReset

\* useState initialiser of FAQScreen; no entry is expanded.
NoToggle ==
    [op |-> "none", index |-> 0, prev |-> << >>,
     before |-> [op |-> "none", index |-> 0, prev |-> << >>]]

InitFaq ==
    /\ expandedIndexes = << >>
    /\ faqLast = NoToggle

\* The payment page has not been pushed; lines is what CartScreen showed
\* when it was.
NoPaymentPage == [opened |-> FALSE, lines |-> << >>]

Init ==
    /\ InitReset
    /\ InitFaq
    /\ paymentPage = NoPaymentPage
    /\ InitPayments
    /\ InitChat
    /\ InitAuth
    /\ InitBatch
    /\ cart = << >>
    /\ totalCartItems = totalCartItemsOf(<< >>)
    /\ cartItems = initialCartItems
    /\ totalAmount = totalAmountOf(initialCartItems)
    /\ alert = "none"
    /\ shopLast = NoShopCall
    /\ shopLast2 = NoShopCall
    /\ shopScript = 0
    /\ cartLast = NoCartCall
    /\ searchQuery = ""

Next ==
    \/ \E product \in Products : addToCart(product)
    \/ \E productId \in ProductIds : shopDecreaseQuantity(productId)
    \/ \E productId \in ProductIds : removeFromCart(productId)
    \/ \E id \in CartIds : increaseQuantity(id)
    \/ \E id \in CartIds : cartDecreaseQuantity(id)
    \/ \E id \in CartIds : removeItem(id)

Spec == Init /\ [][Next]_vars

(***************************************************************************)
(* Mounting a screen runs its useState initialisers again.                 *)
(***************************************************************************)
\* Faulty variant: the list of the previous mount is kept.
mountCartScreenKeepsItems ==
    /\ CartRender(cartItems)
    /\ cartLast' = NoCartCall
    /\ UNCHANGED <<shopVars, alert>>
    /\ UNCHANGED otherVars

\* Faulty variant: CartScreen is given the lines of ShoppingScreen's cart.
mountCartScreenShowsShopCart ==
    /\ CartRender([i \in 1..Len(cart) |->
                      [id |-> <<"1", "2">>[cart[i].product.id],
                       price |-> cart[i].product.price,
                       quantity |-> cart[i].quantity]])
    /\ cartLast' = NoCartCall
    /\ UNCHANGED <<shopVars, alert>>
    /\ UNCHANGED otherVars

\* ShoppingScreen is mounted: useState<CartItem[]>([]), useState('').
mountShoppingScreen ==
    /\ ShopRender(<< >>)
    /\ searchQuery' = ""
    /\ shopLast' = NoShopCall
    /\ shopLast2' = NoShopCall
    /\ shopScript' = 0
    /\ UNCHANGED <<cartVars, alert>>
    /\ UNCHANGED otherVars

\* CartScreen is mounted: useState(initialCartItems).
mountCartScreen ==
    /\ CartRender(initialCartItems)
    /\ cartLast' = NoCartCall
    /\ UNCHANGED <<shopVars, alert>>
    /\ UNCHANGED otherVars

\* The cart handlers and the mounts.
NextSessions ==
    \/ Next
    \/ mountShoppingScreen
    \/ mountCartScreen

SpecSessions == Init /\ [][NextSessions]_vars

\* The handlers of ShoppingScreen with its search box, and the handlers of
\* CartScreen called on the first line.
NextSearch ==
    \/ \E product \in Products : addToCart(product)
    \/ \E productId \in ProductIds : shopDecreaseQuantity(productId)
    \/ \E productId \in ProductIds : removeFromCart(productId)
    \/ increaseQuantity(initialCartItems[1].id)
    \/ cartDecreaseQuantity(initialCartItems[1].id)
    \/ removeItem(initialCartItems[1].id)
    \/ \E text \in SearchQueries : setSearchQuery(text)

SpecSearch == Init /\ [][NextSearch]_vars

(***************************************************************************)
(* PaymentsScreen (src/unnamed/part_002, second module of the file)        *)
(***************************************************************************)
\* Pending timers the model keeps track of.
MaxTimers == 2

\* paymentOptions[*].key
PaymentKeys == { "upi", "card", "netbanking", "wallet", "cod" }

\* Contents typed into a text field.
PayTexts == { "", "1" }

\* What PaymentsScreen renders: the spinner while loading, the Payment
\* Failed view while paymentFailed, the form otherwise.
PayView ==
    IF loading THEN "processing"
    ELSE IF paymentFailed THEN "failed"
    ELSE "form"

\* The text fields the form shows for the selected method.
FieldsOf(key) ==
    CASE key = "upi"        -> { "upiId", "amount" }
      [] key = "card"       -> { "cardNumber", "cardExpiry", "cardCvv",
                                 "amount" }
      [] key = "netbanking" -> { "amount" }
      [] key = "wallet"     -> { "wallet", "amount" }
      [] OTHER              -> { }

\* History only: the event joins payEvents, which keeps the last two.
PayEvent(event) ==
    payEvents' = IF payEvents = << >> THEN << event >>
                 ELSE << payEvents[Len(payEvents)], event >>

\* onPress={() => setSelected(opt.key)}
setSelected(key) ==
    /\ UNCHANGED payEvents
    /\ PayView = "form"
    /\ selected' = key
    /\ UNCHANGED <<payForm, loading, paymentFailed, qrModal, timers>>
    /\ UNCHANGED <<shopVars, cartVars, alert, chatVars, authVars, batchVars,
                 moreVars>>

\* onChangeText of a text field of the form (setUpiId, setAmount, ...).
setPayText(field, text) ==
    /\ UNCHANGED payEvents
    /\ PayView = "form"
    /\ field \in FieldsOf(selected)
    /\ payForm' = [payForm EXCEPT ![field] = text]
    /\ UNCHANGED <<selected, loading, paymentFailed, qrModal, timers>>
    /\ UNCHANGED <<shopVars, cartVars, alert, chatVars, authVars, batchVars,
                 moreVars>>

\* handleScanQR and the two ways to close the modal.
handleScanQR ==
    /\ UNCHANGED payEvents
    /\ PayView = "form"
    /\ qrModal' = TRUE
    /\ UNCHANGED <<selected, payForm, loading, paymentFailed, timers>>
    /\ UNCHANGED <<shopVars, cartVars, alert, chatVars, authVars, batchVars,
                 moreVars>>

closeQrModal ==
    /\ UNCHANGED payEvents
    /\ qrModal
    /\ qrModal' = FALSE
    /\ UNCHANGED <<selected, payForm, loading, paymentFailed, timers>>
    /\ UNCHANGED <<shopVars, cartVars, alert, chatVars, authVars, batchVars,
                 moreVars>>

\* handlePay: Pay Now / Place Order.  The button belongs to the form; a
\* second press can reach the handler before the spinner has replaced the
\* form on the device.
handlePay ==
    /\ PayEvent("pay")
    /\ PayView \in { "form", "processing" }
    /\ timers < MaxTimers
    /\ loading' = TRUE
    /\ paymentFailed' = FALSE
    /\ timers' = timers + 1
    /\ UNCHANGED <<selected, payForm, qrModal>>
    /\ UNCHANGED <<shopVars, cartVars, alert, chatVars, authVars, batchVars,
                 moreVars>>

\* Faulty variant: setLoading(false) is missing from the callback.
payTimeoutKeepsLoading ==
    /\ PayEvent("timer")
    /\ timers > 0
    /\ paymentFailed' = TRUE
    /\ timers' = timers - 1
    /\ UNCHANGED <<selected, payForm, qrModal, loading>>
    /\ UNCHANGED <<shopVars, cartVars, alert, chatVars, authVars, batchVars,
                 moreVars>>

\* Faulty variant: the callback reports success.
payTimeoutSucceeds ==
    /\ PayEvent("timer")
    /\ timers > 0
    /\ loading' = FALSE
    /\ paymentFailed' = FALSE
    /\ timers' = timers - 1
    /\ UNCHANGED <<selected, payForm, qrModal>>
    /\ UNCHANGED <<shopVars, cartVars, alert, chatVars, authVars, batchVars,
                 moreVars>>

\* The callback handed to setTimeout(..., 2000) runs.
payTimeout ==
    /\ PayEvent("timer")
    /\ timers > 0
    /\ loading' = FALSE
    /\ paymentFailed' = TRUE
    /\ timers' = timers - 1
    /\ UNCHANGED <<selected, payForm, qrModal>>
    /\ UNCHANGED <<shopVars, cartVars, alert, chatVars, authVars, batchVars,
                 moreVars>>

\* Try Again: onPress={() => setPaymentFailed(false)}
tryAgain ==
    /\ PayEvent("retry")
    /\ PayView = "failed"
    /\ paymentFailed' = FALSE
    /\ UNCHANGED <<selected, payForm, loading, qrModal, timers>>
    /\ UNCHANGED <<shopVars, cartVars, alert, chatVars, authVars, batchVars,
                 moreVars>>

NextPayments ==
    \/ \E key \in PaymentKeys : setSelected(key)
    \/ \E field \in DOMAIN NoPayText, text \in PayTexts :
          setPayText(field, text)
    \/ handleScanQR
    \/ closeQrModal
    \/ handlePay
    \/ payTimeout
    \/ tryAgain

SpecPayments == Init /\ [][NextPayments]_vars

\* A callback handed to setTimeout is run by the JavaScript runtime.
SpecPaymentsFair == SpecPayments /\ WF_vars(payTimeout)

(***************************************************************************)
(* ChatScreen (src/unnamed/part_001) over CONTACTS_DATA                    *)
(***************************************************************************)
\* Messages one contact can be sent, and clock readings after the first.
MaxSends == 2
MaxClock == 1

\* Values of the route parameter id: the contacts and one id no contact has.
RouteIds == { CONTACTS_DATA[i].id : i \in 1..Len(CONTACTS_DATA) } \cup { "99" }

\* Contents of the message box.
ChatTexts == { "", " ", "hi", " hi " }

\* String.prototype.trim on ChatTexts.
Trim(text) ==
    CASE text = " "    -> ""
      [] text = " hi " -> "hi"
      [] OTHER         -> text

\* Number.prototype.toString: the decimal digits of n.
RECURSIVE toString(_)
toString(n) ==
    LET digit == <<"0", "1", "2", "3", "4", "5", "6", "7", "8", "9">>
    IN  IF n < 10 THEN digit[n + 1]
        ELSE toString(n \div 10) \o digit[(n % 10) + 1]

\* CONTACTS_DATA.find(c => c.id === id): the position of the contact, 0
\* for undefined.
FindContact(data, id) ==
    IF \E i \in 1..Len(data) : data[i].id = id
    THEN CHOOSE i \in 1..Len(data) :
            /\ data[i].id = id
            /\ \A j \in 1..(i - 1) : data[j].id # id
    ELSE 0

\* const contact of the current render.
contact == IF chatId = "none" THEN 0 ELSE FindContact(contactsData, chatId)

\* Time passes.
tick ==
    /\ now < ClockBase + MaxClock
    /\ now' = now + 1
    /\ sendLast' = NoSend
    /\ UNCHANGED <<contactsData, chatId, messages, inputText, aliased>>
    /\ UNCHANGED <<shopVars, cartVars, alert, payVars, authVars, batchVars,
                 moreVars>>

\* Faulty variant: the first state is the seeded chat, not the array the
\* contact holds now.
openChatShowsSeededChat(id) ==
    /\ chatId = "none"
    /\ chatId' = id
    /\ LET c == FindContact(CONTACTS_DATA, id)
       IN  /\ messages' = IF c # 0 THEN CONTACTS_DATA[c].chat ELSE << >>
           /\ aliased' = (c # 0)
    /\ inputText' = ""
    /\ sendLast' = NoSend
    /\ UNCHANGED <<contactsData, now>>
    /\ UNCHANGED <<shopVars, cartVars, alert, payVars, authVars, batchVars,
                 moreVars>>

\* router.push(`/chats/${item.id}`) or a link: ChatScreen is mounted and
\* useState(contact?.chat ?? []) takes the contact's array itself as the
\* first state.
openChat(id) ==
    /\ chatId = "none"
    /\ chatId' = id
    /\ LET c == FindContact(contactsData, id)
       IN  /\ messages' = IF c # 0 THEN contactsData[c].chat ELSE << >>
           /\ aliased' = (c # 0)
    /\ inputText' = ""
    /\ sendLast' = NoSend
    /\ UNCHANGED <<contactsData, now>>
    /\ UNCHANGED <<shopVars, cartVars, alert, payVars, authVars, batchVars,
                 moreVars>>

\* router.replace('/chats'): ChatScreen is unmounted, its state is dropped.
closeChat ==
    /\ chatId # "none"
    /\ chatId' = "none"
    /\ messages' = << >>
    /\ inputText' = ""
    /\ aliased' = FALSE
    /\ sendLast' = NoSend
    /\ UNCHANGED <<contactsData, now>>
    /\ UNCHANGED <<shopVars, cartVars, alert, payVars, authVars, batchVars,
                 moreVars>>

\* onChangeText={setInputText}
setInputText(text) ==
    /\ contact # 0
    /\ text # inputText
    /\ inputText' = text
    /\ sendLast' = NoSend
    /\ UNCHANGED <<contactsData, chatId, messages, aliased, now>>
    /\ UNCHANGED <<shopVars, cartVars, alert, payVars, authVars, batchVars,
                 moreVars>>

\* Date.prototype.toISOString, reduced to the reading it formats.
ToISOString(n) == "T" \o toString(n)

\* Faulty variant: the test is inputText && contact, without trim().
handleSendWithoutTrim(eager) ==
    /\ chatId # "none"
    /\ sendLast' = [op |-> "send", text |-> inputText, found |-> contact # 0,
                    messages |-> messages, data |-> contactsData]
    /\ IF inputText # "" /\ contact # 0
       THEN /\ Len(contactsData[contact].chat)
                 < Len(CONTACTS_DATA[contact].chat) + MaxSends
            /\ LET newMessage == [id |-> toString(now),
                                  message |-> inputText,
                                  timestamp |-> ToISOString(now),
                                  fromMe |-> TRUE]
                   pushed == Append(contactsData[contact].chat, newMessage)
                   prev == IF aliased /\ ~eager THEN pushed ELSE messages
               IN  /\ messages' = Append(prev, newMessage)
                   /\ contactsData' =
                         [contactsData EXCEPT ![contact].chat = pushed]
            /\ inputText' = ""
            /\ aliased' = FALSE
            /\ UNCHANGED <<chatId, now>>
       ELSE UNCHANGED <<contactsData, chatId, messages, inputText,
                        aliased, now>>
    /\ UNCHANGED <<shopVars, cartVars, alert, payVars, authVars, batchVars,
                 moreVars>>

\* handleSend.  setMessages(prev => [...prev, newMessage]) hands React an
\* updater: React runs it inside the call when the component has no other
\* update pending (eager), and otherwise while rendering, which is after
\* contact.chat.push(newMessage).  As long as the state is still the
\* array useState was given, that array is contact.chat, so the updater
\* run while rendering finds newMessage already in prev.
handleSend(eager) ==
    /\ chatId # "none"
    /\ sendLast' = [op |-> "send", text |-> inputText, found |-> contact # 0,
                    messages |-> messages, data |-> contactsData]
    /\ IF Trim(inputText) # "" /\ contact # 0
       THEN /\ Len(contactsData[contact].chat)
                 < Len(CONTACTS_DATA[contact].chat) + MaxSends
            /\ LET newMessage == [id |-> toString(now),
                                  message |-> inputText,
                                  timestamp |-> ToISOString(now),
                                  fromMe |-> TRUE]
                   pushed == Append(contactsData[contact].chat, newMessage)
                   prev == IF aliased /\ ~eager THEN pushed ELSE messages
               IN  /\ messages' = Append(prev, newMessage)
                   /\ contactsData' =
                         [contactsData EXCEPT ![contact].chat = pushed]
            /\ inputText' = ""
            /\ aliased' = FALSE
            /\ UNCHANGED <<chatId, now>>
       ELSE UNCHANGED <<contactsData, chatId, messages, inputText,
                        aliased, now>>
    /\ UNCHANGED <<shopVars, cartVars, alert, payVars, authVars, batchVars,
                 moreVars>>

NextChat ==
    \/ tick
    \/ \E id \in RouteIds : openChat(id)
    \/ closeChat
    \/ \E text \in ChatTexts : setInputText(text)
    \/ \E eager \in BOOLEAN : handleSend(eager)

SpecChat == Init /\ [][NextChat]_vars

(***************************************************************************)
(* WelcomeScreen, LoginScreen and SignupScreen (src/app/(auth))            *)
(***************************************************************************)
\* Contents typed into a text field of the two forms.
AuthTexts == { "", "a" }

\* LOGIN on the welcome screen, Login on the signup screen:
\* router.push('/(auth)/Login') mounts LoginScreen.
pushLogin ==
    /\ route \in { "welcome", "signup" }
    /\ route' = "login"
    /\ credentials' = NoCredentials
    /\ form' = NoForm
    /\ UNCHANGED authLast
    /\ UNCHANGED <<shopVars, cartVars, alert, payVars, chatVars, batchVars,
                 moreVars>>

\* SIGNUP on the welcome screen, Sign Up on the login screen:
\* router.push('/(auth)/Signup') mounts SignupScreen.
pushSignup ==
    /\ route \in { "welcome", "login" }
    /\ route' = "signup"
    /\ credentials' = NoCredentials
    /\ form' = NoForm
    /\ UNCHANGED authLast
    /\ UNCHANGED <<shopVars, cartVars, alert, payVars, chatVars, batchVars,
                 moreVars>>

\* onChangeText={text => setCredentials({ ...credentials, [field]: text })}
setCredentials(field, text) ==
    /\ route = "login"
    /\ credentials' = [credentials EXCEPT ![field] = text]
    /\ UNCHANGED <<route, form, authLast>>
    /\ UNCHANGED <<shopVars, cartVars, alert, payVars, chatVars, batchVars,
                 moreVars>>

\* onChangeText={text => setForm({ ...form, [field]: text })}
setForm(field, text) ==
    /\ route = "signup"
    /\ form' = [form EXCEPT ![field] = text]
    /\ UNCHANGED <<route, credentials, authLast>>
    /\ UNCHANGED <<shopVars, cartVars, alert, payVars, chatVars, batchVars,
                 moreVars>>

\* Faulty variant: empty credentials are refused and the screen stays.
handleLoginChecksCredentials ==
    /\ route = "login"
    /\ authLast' = [op |-> "login", fields |-> credentials]
    /\ IF credentials.username # "" /\ credentials.password # ""
       THEN route' = "home" /\ credentials' = NoCredentials
       ELSE UNCHANGED <<route, credentials>>
    /\ UNCHANGED form
    /\ UNCHANGED <<shopVars, cartVars, alert, payVars, chatVars, batchVars,
                 moreVars>>

\* handleLogin: router.replace('/(tabs)/home') puts the home tab in the
\* place of LoginScreen, whose state goes with it.
handleLogin ==
    /\ route = "login"
    /\ authLast' = [op |-> "login", fields |-> credentials]
    /\ route' = "home"
    /\ credentials' = NoCredentials
    /\ UNCHANGED form
    /\ UNCHANGED <<shopVars, cartVars, alert, payVars, chatVars, batchVars,
                 moreVars>>

\* handleSignup: router.replace('/(tabs)/home').
handleSignup ==
    /\ route = "signup"
    /\ authLast' = [op |-> "signup", fields |-> form]
    /\ route' = "home"
    /\ form' = NoForm
    /\ UNCHANGED credentials
    /\ UNCHANGED <<shopVars, cartVars, alert, payVars, chatVars, batchVars,
                 moreVars>>

\* DEMO APP on the welcome screen: router.replace('/(tabs)/home').
demoApp ==
    /\ route = "welcome"
    /\ authLast' = [op |-> "demo", fields |-> NoCredentials]
    /\ route' = "home"
    /\ UNCHANGED <<credentials, form>>
    /\ UNCHANGED <<shopVars, cartVars, alert, payVars, chatVars, batchVars,
                 moreVars>>

NextAuth ==
    \/ pushLogin
    \/ pushSignup
    \/ \E field \in DOMAIN NoCredentials, text \in AuthTexts :
          setCredentials(field, text)
    \/ \E field \in DOMAIN NoForm, text \in AuthTexts : setForm(field, text)
    \/ handleLogin
    \/ handleSignup
    \/ demoApp

SpecAuth == Init /\ [][NextAuth]_vars

(***************************************************************************)
(* Handler calls between two renders: React queues the updaters given to   *)
(* setCart and setCartItems and runs the queue when it renders.            *)
(***************************************************************************)
\* Handler calls the model lets happen before one render.
MaxPending == 2

\* The handlers of the two screens that hand an updater to React.
ShopOps == { "addToCart", "decreaseQuantity", "removeFromCart" }
CartOps == { "increaseQuantity", "decreaseQuantity", "removeItem" }

\* The updater a handler call hands to setCart or setCartItems, applied to
\* the state prev it is given.
Updater(screen, call, prev) ==
    IF screen = "shop"
    THEN CASE call.op = "addToCart" ->
                 addToCartUpdate(prev, call.arg)
           [] call.op = "decreaseQuantity" ->
                 shopDecreaseUpdate(prev, call.arg)
           [] call.op = "removeFromCart" ->
                 removeFromCartUpdate(prev, call.arg)
    ELSE CASE call.op = "increaseQuantity" ->
                 increaseQuantityUpdate(prev, call.arg)
           [] call.op = "decreaseQuantity" ->
                 cartDecreaseUpdate(prev, call.arg)
           [] call.op = "removeItem" ->
                 removeItemUpdate(prev, call.arg)

\* Faulty variant: every queued updater is given the state of the last
\* render, so the last call overwrites the others.
ProcessQueueOnStaleState(screen, calls, prev) ==
    IF calls = << >> THEN prev
    ELSE Updater(screen, calls[Len(calls)], prev)

\* React running the queue of a state while rendering: the first updater
\* gets the state of the last render, each later one the result of the
\* updater before it.
RECURSIVE ProcessQueue(_, _, _)
ProcessQueue(screen, calls, prev) ==
    IF calls = << >> THEN prev
    ELSE ProcessQueue(screen, Tail(calls), Updater(screen, Head(calls), prev))

\* The quantity the line of an argument has in a list, 0 without a line.
QuantityIn(screen, lines, arg) ==
    LET hit == IF screen = "shop"
               THEN SelectSeq(lines, LAMBDA l : l.product.id = arg.id)
               ELSE SelectSeq(lines, LAMBDA l : l.id = arg)
    IN  IF hit = << >> THEN 0 ELSE hit[1].quantity

\* A handler is called: its updater joins the queue, the state of the
\* screen stays what the last render has until React renders again.
QueueCall(screen, call) ==
    /\ batchPending => batchScreen = screen /\ Len(batchCalls) < MaxPending
    /\ batchScreen' = screen
    /\ batchCalls' = IF batchPending THEN Append(batchCalls, call)
                     ELSE << call >>
    /\ batchPending' = TRUE
    /\ issued' = Updater(screen, call,
                         IF batchPending THEN issued
                         ELSE IF screen = "shop" THEN cart ELSE cartItems)

\* addToCart, decreaseQuantity or removeFromCart of ShoppingScreen is
\* called while an earlier call may still wait for its render.
shopCall(op, product) ==
    /\ QueueCall("shop", [op |-> op,
                          arg |-> IF op = "addToCart" THEN product
                                  ELSE product.id])
    /\ op = "addToCart" => QuantityIn("shop", issued', product) <= MaxQty
    /\ alert' = CASE op = "addToCart"      -> "Added to Cart"
                  [] op = "removeFromCart" -> "Removed from Cart"
                  [] OTHER                 -> alert
    /\ UNCHANGED <<shopVars, cartVars>>
    /\ UNCHANGED <<payVars, chatVars, authVars,
                 moreVars>>

\* increaseQuantity, decreaseQuantity or removeItem of CartScreen is called
\* while an earlier call may still wait for its render.
cartCall(op, id) ==
    /\ QueueCall("cart", [op |-> op, arg |-> id])
    /\ op = "increaseQuantity" => QuantityIn("cart", issued', id) <= MaxQty
    /\ alert' = IF op = "removeItem" THEN "Removed" ELSE alert
    /\ UNCHANGED <<shopVars, cartVars>>
    /\ UNCHANGED <<payVars, chatVars, authVars,
                 moreVars>>

\* React renders ShoppingScreen: the queue of cart is run.
renderShoppingScreen ==
    /\ batchPending
    /\ batchScreen = "shop"
    /\ ShopRender(ProcessQueue("shop", batchCalls, cart))
    /\ batchPending' = FALSE
    /\ UNCHANGED <<batchScreen, batchCalls, issued>>
    /\ UNCHANGED <<searchQuery, shopLast, shopLast2, shopScript>>
    /\ UNCHANGED <<cartVars, alert, payVars, chatVars, authVars,
                 moreVars>>

\* React renders CartScreen: the queue of cartItems is run.
renderCartScreen ==
    /\ batchPending
    /\ batchScreen = "cart"
    /\ CartRender(ProcessQueue("cart", batchCalls, cartItems))
    /\ batchPending' = FALSE
    /\ UNCHANGED <<batchScreen, batchCalls, issued>>
    /\ UNCHANGED cartLast
    /\ UNCHANGED <<shopVars, alert, payVars, chatVars, authVars,
                 moreVars>>

NextBatch ==
    \/ \E op \in ShopOps, product \in Products : shopCall(op, product)
    \/ \E op \in CartOps, id \in CartIds : cartCall(op, id)
    \/ renderShoppingScreen
    \/ renderCartScreen

SpecBatch == Init /\ [][NextBatch]_vars

(***************************************************************************)
(* ForgotPasswordScreen (src/app/(auth)/ForgotPassword.tsx)                *)
(***************************************************************************)
\* Contents typed into a text field of the screen.
ResetTexts == { "", "a", "b" }

\* Forgot Password? on LoginScreen: router.push('/ForgotPassword').
pushForgotPassword ==
    /\ route = "login"
    /\ route' = "forgot"
    /\ resetForm' = NoResetForm
    /\ resetLast' = NoReset
    /\ UNCHANGED <<credentials, form, authLast>>
    /\ UNCHANGED <<shopVars, cartVars, alert, payVars, chatVars, batchVars,
                   faqVars, paymentPage>>

\* onChangeText={setEmail}, {setNewPassword}, {setConfirmPassword}
setResetField(field, text) ==
    /\ route = "forgot"
    /\ resetForm' = [resetForm EXCEPT ![field] = text]
    /\ resetLast' = NoReset
    /\ UNCHANGED authVars
    /\ UNCHANGED <<shopVars, cartVars, alert, payVars, chatVars, batchVars,
                   faqVars, paymentPage>>

\* Faulty variant: the comparison of the two passwords is missing.
handleResetWithoutComparison ==
    /\ route = "forgot"
    /\ resetLast' = [op |-> "reset", fields |-> resetForm]
    /\ IF \/ resetForm.email = ""
          \/ resetForm.newPassword = ""
          \/ resetForm.confirmPassword = ""
       THEN /\ alert' = "Error"
            /\ UNCHANGED <<route, resetForm, credentials>>
       ELSE /\ alert' = "Success"
            /\ route' = "login"
            /\ resetForm' = NoResetForm
            /\ credentials' = NoCredentials
    /\ UNCHANGED <<form, authLast>>
    /\ UNCHANGED <<shopVars, cartVars, payVars, chatVars, batchVars,
                   faqVars, paymentPage>>

\* handleReset.  !email, !newPassword, !confirmPassword are true of the
\* empty string only; alert is the title of the dialog.  On success
\* router.replace('/(auth)/Login') puts a new LoginScreen in the place of
\* this screen.
handleReset ==
    /\ route = "forgot"
    /\ resetLast' = [op |-> "reset", fields |-> resetForm]
    /\ IF \/ resetForm.email = ""
          \/ resetForm.newPassword = ""
          \/ resetForm.confirmPassword = ""
       THEN /\ alert' = "Error"
            /\ UNCHANGED <<route, resetForm, credentials>>
       ELSE IF resetForm.newPassword # resetForm.confirmPassword
       THEN /\ alert' = "Error"
            /\ UNCHANGED <<route, resetForm, credentials>>
       ELSE /\ alert' = "Success"
            /\ route' = "login"
            /\ resetForm' = NoResetForm
            /\ credentials' = NoCredentials
    /\ UNCHANGED <<form, authLast>>
    /\ UNCHANGED <<shopVars, cartVars, payVars, chatVars, batchVars,
                   faqVars, paymentPage>>

\* Back to Login: router.replace('/(auth)/Login').
backToLogin ==
    /\ route = "forgot"
    /\ route' = "login"
    /\ resetForm' = NoResetForm
    /\ resetLast' = NoReset
    /\ credentials' = NoCredentials
    /\ UNCHANGED <<form, authLast>>
    /\ UNCHANGED <<shopVars, cartVars, alert, payVars, chatVars, batchVars,
                   faqVars, paymentPage>>

NextReset ==
    \/ pushLogin
    \/ pushForgotPassword
    \/ \E field \in DOMAIN NoResetForm, text \in ResetTexts :
          setResetField(field, text)
    \/ handleReset
    \/ backToLogin

SpecReset == Init /\ [][NextReset]_vars

(***************************************************************************)
(* FAQScreen (src/app/(tabs)/faq.tsx)                                      *)
(***************************************************************************)
\* The questions of FAQ_DATA.
FAQ_DATA ==
    << "How do I reset my password?",
       "How can I contact support?",
       "Where can I view my purchase history?",
       "How do I update my profile information?",
       "Is my data secure?" >>

\* The idx of FAQ_DATA.map((item, idx) => ...), counted from 0.
FaqIndexes == 0..(Len(FAQ_DATA) - 1)

\* prev.includes(index)
Includes(prev, index) == \E k \in 1..Len(prev) : prev[k] = index

\* Faulty variant: one entry at a time, opening one closes the others.
toggleExpandOneAtATime(prev, index) ==
    IF Includes(prev, index) THEN << >> ELSE << index >>

\* setExpandedIndexes updater of toggleExpand.
toggleExpandUpdate(prev, index) ==
    IF Includes(prev, index)
    THEN SelectSeq(prev, LAMBDA i : i # index)
    ELSE Append(prev, index)

\* toggleExpand(idx), the onPress of a question row.
toggleExpand(index) ==
    /\ expandedIndexes' = toggleExpandUpdate(expandedIndexes, index)
    /\ faqLast' = [op |-> "toggle", index |-> index,
                   prev |-> expandedIndexes,
                   before |-> [op |-> faqLast.op, index |-> faqLast.index,
                               prev |-> faqLast.prev]]
    /\ UNCHANGED <<shopVars, cartVars, alert, payVars, chatVars, authVars,
                   batchVars, resetVars, paymentPage>>

\* FAQScreen is mounted: useState<number[]>([]).
mountFAQScreen ==
    /\ expandedIndexes' = << >>
    /\ faqLast' = NoToggle
    /\ UNCHANGED <<shopVars, cartVars, alert, payVars, chatVars, authVars,
                   batchVars, resetVars, paymentPage>>

NextFaq ==
    \/ \E index \in FaqIndexes : toggleExpand(index)
    \/ mountFAQScreen

SpecFaq == Init /\ [][NextFaq]_vars

(***************************************************************************)
(* CartScreen: the Payment button                                          *)
(***************************************************************************)
\* disabled={cartItems.length === 0} of the Payment button.
paymentDisabled == Len(cartItems) = 0

\* Faulty variant: the button has no disabled prop.
handlePaymentAlwaysEnabled ==
    /\ paymentPage' = [opened |-> TRUE, lines |-> cartItems]
    /\ UNCHANGED <<shopVars, cartVars, alert, payVars, chatVars, authVars,
                   batchVars, resetVars, faqVars>>

\* A press of the Payment button: a disabled TouchableOpacity does not
\* call onPress; handlePayment is router.push('/shopping/Payment'), which
\* leaves CartScreen and its state on the stack.
handlePayment ==
    /\ ~paymentDisabled
    /\ paymentPage' = [opened |-> TRUE, lines |-> cartItems]
    /\ UNCHANGED <<shopVars, cartVars, alert, payVars, chatVars, authVars,
                   batchVars, resetVars, faqVars>>

NextCheckout ==
    \/ \E id \in CartIds : increaseQuantity(id)
    \/ \E id \in CartIds : cartDecreaseQuantity(id)
    \/ \E id \in CartIds : removeItem(id)
    \/ handlePayment
    \/ mountCartScreen

SpecCheckout == Init /\ [][NextCheckout]_vars

(***************************************************************************)
(* Properties of the carts                                                 *)
(***************************************************************************)
\* Sum of the values of a function with a finite domain.
RECURSIVE SumFn(_)
SumFn(f) ==
    IF DOMAIN f = {} THEN 0
    ELSE LET i == CHOOSE j \in DOMAIN f : TRUE
         IN  f[i] + SumFn([j \in DOMAIN f \ {i} |-> f[j]])

\* Positions of the lines of a product (ShoppingScreen) or an id (CartScreen).
ProductLines(lines, productId) ==
    { i \in 1..Len(lines) : lines[i].product.id = productId }

IdLines(lines, id) ==
    { i \in 1..Len(lines) : lines[i].id = id }

\* C1: neither cart ever holds two lines with the same item identity
\* (cart is keyed by product.id, cartItems by id).
CartLinesUnique ==
    /\ \A i, j \in 1..Len(cart) :
          cart[i].product.id = cart[j].product.id => i = j
    /\ \A i, j \in 1..Len(cartItems) :
          cartItems[i].id = cartItems[j].id => i = j

\* C1 case: addToCart was called for a product that already had a line,
\* next to a line of another product, and CartScreen has changed a line.
CartLinesUniqueWitness ==
    /\ shopLast.op = "add"
    /\ HasProduct(shopLast.prev, shopLast.id)
    /\ Len(cart) = 2
    /\ cartLast.op = "increase"
    /\ HasId(cartLast.prev, cartLast.id)

\* C2: every line of either cart has an integer quantity of at least 1.
QuantityAtLeastOne ==
    /\ \A i \in 1..Len(cart) :
          cart[i].quantity \in Int /\ cart[i].quantity >= 1
    /\ \A i \in 1..Len(cartItems) :
          cartItems[i].quantity \in Int /\ cartItems[i].quantity >= 1

\* C2 case: both screens have decreased a line that stood at quantity 1.
QuantityAtLeastOneWitness ==
    /\ shopLast.op = "decrease"
    /\ \E i \in ProductLines(shopLast.prev, shopLast.id) :
          shopLast.prev[i].quantity = 1
    /\ cartLast.op = "decrease"
    /\ \E i \in IdLines(cartLast.prev, cartLast.id) :
          cartLast.prev[i].quantity = 1

\* C3: the total CartScreen shows is the sum over the current lines of
\* unit price times quantity.
TotalAmountMatchesLines ==
    totalAmount =
        SumFn([i \in 1..Len(cartItems) |->
                  cartItems[i].price * cartItems[i].quantity])

\* C3 case: after a removal and an increase the list holds lines of
\* different quantities.
TotalAmountMatchesLinesWitness ==
    /\ cartLast.op = "increase"
    /\ Len(cartItems) = 2
    /\ cartItems[1].quantity # cartItems[2].quantity
    /\ totalAmount > 0

\* C4: the item count ShoppingScreen shows is the sum of the quantities of
\* the current lines.
TotalCartItemsMatchesLines ==
    totalCartItems = SumFn([i \in 1..Len(cart) |-> cart[i].quantity])

\* C4 case: two lines, one of them above quantity 1, after a decrease.
TotalCartItemsMatchesLinesWitness ==
    /\ shopLast.op = "decrease"
    /\ Len(cart) = 2
    /\ totalCartItems > 2

\* C5: addToCart(A) twice in a row on a cart that had no line for A leaves
\* exactly one line for A, and its quantity is 2.
AddTwiceYieldsQuantityTwo ==
    \A a \in ProductIds :
        ( /\ shopLast2.op = "add" /\ shopLast2.id = a
          /\ ~HasProduct(shopLast2.prev, a)
          /\ shopLast.op = "add" /\ shopLast.id = a )
        => /\ Cardinality(ProductLines(cart, a)) = 1
           /\ \A i \in ProductLines(cart, a) : cart[i].quantity = 2

\* C5 case: the two calls were made on a cart holding another product.
AddTwiceYieldsQuantityTwoWitness ==
    /\ shopLast2.op = "add"
    /\ ~HasProduct(shopLast2.prev, shopLast2.id)
    /\ Len(shopLast2.prev) = 1
    /\ shopLast.op = "add"
    /\ shopLast.id = shopLast2.id
    /\ Len(cart) = 2

\* C6: CartScreen.decreaseQuantity never changes the number of lines, and a
\* line that stood at quantity 1 is still there, in place, at quantity 1.
ClampKeepsLineAtOne ==
    cartLast.op = "decrease"
    => /\ Len(cartItems) = Len(cartLast.prev)
       /\ \A i \in IdLines(cartLast.prev, cartLast.id) :
             cartLast.prev[i].quantity = 1
             => /\ cartItems[i].id = cartLast.id
                /\ cartItems[i].quantity = 1

\* C6 case: a decrease of a line at quantity 1, next to a line at another
\* quantity.
ClampKeepsLineAtOneWitness ==
    /\ cartLast.op = "decrease"
    /\ \E i \in IdLines(cartLast.prev, cartLast.id) :
          cartLast.prev[i].quantity = 1
    /\ \E i \in 1..Len(cartItems) : cartItems[i].quantity > 1

\* C7: ShoppingScreen.decreaseQuantity on a line at quantity 1 deletes the
\* line (and only that line); the same call once more changes nothing.
RemoveAtZeroThenNoOp ==
    /\ ( /\ shopLast.op = "decrease"
         /\ \E i \in ProductLines(shopLast.prev, shopLast.id) :
               shopLast.prev[i].quantity = 1 )
       => /\ ~HasProduct(cart, shopLast.id)
          /\ Len(cart) = Len(shopLast.prev) - 1
    /\ ( /\ shopLast2.op = "decrease"
         /\ \E i \in ProductLines(shopLast2.prev, shopLast2.id) :
               shopLast2.prev[i].quantity = 1
         /\ shopLast.op = "decrease" /\ shopLast.id = shopLast2.id )
       => cart = shopLast.prev

\* C7 case: the line was deleted from a cart of two lines and the call was
\* repeated.
RemoveAtZeroThenNoOpWitness ==
    /\ shopLast2.op = "decrease"
    /\ Len(shopLast2.prev) = 2
    /\ \E i \in ProductLines(shopLast2.prev, shopLast2.id) :
          shopLast2.prev[i].quantity = 1
    /\ shopLast.op = "decrease" /\ shopLast.id = shopLast2.id
    /\ Len(cart) = 1

\* C8: a call of decreaseQuantity / removeFromCart (ShoppingScreen) or of
\* increaseQuantity / decreaseQuantity / removeItem (CartScreen) with an
\* identity no line carries leaves the lines, quantities and order as they
\* were.
UnknownIdentityIsNoOp ==
    /\ ( /\ shopLast.op \in {"decrease", "remove"}
         /\ ~HasProduct(shopLast.prev, shopLast.id) )
       => cart = shopLast.prev
    /\ ( /\ cartLast.op \in {"increase", "decrease", "remove"}
         /\ ~HasId(cartLast.prev, cartLast.id) )
       => cartItems = cartLast.prev

\* C8 case: both screens were called with an absent identity on a cart that
\* is not empty; the CartScreen call was removeItem.
UnknownIdentityIsNoOpWitness ==
    /\ shopLast.op \in {"decrease", "remove"}
    /\ ~HasProduct(shopLast.prev, shopLast.id)
    /\ shopLast.prev # << >>
    /\ cartLast.op = "remove"
    /\ ~HasId(cartLast.prev, cartLast.id)
    /\ cartLast.prev # << >>

\* C9: removing from an empty cart leaves it empty, and the totals shown
\* afterwards are zero (line count, totalCartItems, totalAmount).
RemoveOnEmptyCart ==
    /\ (shopLast.op = "remove" /\ shopLast.prev = << >>)
       => cart = << >> /\ Len(cart) = 0 /\ totalCartItems = 0
    /\ (cartLast.op = "remove" /\ cartLast.prev = << >>)
       => cartItems = << >> /\ Len(cartItems) = 0 /\ totalAmount = 0

\* C9 case: both screens removed from an empty cart.
RemoveOnEmptyCartWitness ==
    /\ shopLast.op = "remove" /\ shopLast.prev = << >>
    /\ cartLast.op = "remove" /\ cartLast.prev = << >>

\* Totals of the ShoppingScreen cart: number of lines, the item count the
\* screen shows, and the sum of unit price times quantity (cents).
ShopTotals ==
    << Len(cart),
       totalCartItems,
       SumFn([i \in 1..Len(cart) |->
                 cart[i].product.price * cart[i].quantity]) >>

\* Totals the worked example expects after each call of Scenario.
ScenarioTotals ==
    << <<1, 1, 1000>>, <<1, 2, 2000>>, <<2, 3, 2550>>,
       <<2, 2, 1550>>, <<1, 1, 550>> >>

\* C10: from the empty cart, add 1 (10.00), add 1, add 2 (5.50),
\* decrease 1, decrease 1 give the totals (1,1,10.00), (1,2,20.00),
\* (2,3,25.50), (2,2,15.50), (1,1,5.50); the line of product 1 is there
\* after the first decrease and gone after the second.
ScenarioTotalsHold ==
    /\ \A k \in 1..Len(Scenario) :
          shopScript = k => ShopTotals = ScenarioTotals[k]
    /\ shopScript = 4 => HasProduct(cart, 1)
    /\ shopScript = 5 => ~HasProduct(cart, 1)

\* C10 case: all five calls of the example were made.
ScenarioTotalsHoldWitness ==
    /\ shopScript = Len(Scenario)
    /\ shopLast.op = "decrease"
    /\ shopLast2.op = "decrease"

\* A step that changes the search text of the mounted ShoppingScreen (the
\* mount of the screen sets the text to '' and forgets the calls).
SearchRender ==
    /\ searchQuery' # searchQuery
    /\ searchQuery' # "" \/ shopLast' # NoShopCall

CartsChangeByCallsOnly ==
    /\ cart' # cart
       => \/ /\ shopLast'.op \in {"add", "decrease", "remove"}
             /\ shopLast'.prev = cart
             /\ shopLast2' = shopLast
          \/ shopLast'.op = "none"
    /\ cartItems' # cartItems
       => \/ /\ cartLast'.op \in {"increase", "decrease", "remove"}
             /\ cartLast'.prev = cartItems
          \/ cartLast'.op = "none"

\* C12 as stated: both carts are empty when their screen is mounted, and
\* change by the handlers only.
CartsCreatedEmpty ==
    /\ [](shopLast.op = "none" => cart = << >>)
    /\ [](cartLast.op = "none" => cartItems = << >>)
    /\ [][CartsChangeByCallsOnly]_vars

\* C12 amended: ShoppingScreen.cart is empty when the screen is mounted,
\* CartScreen.cartItems holds the three lines of initialCartItems when the
\* screen is mounted, and both change by the handlers only.
CartsCreatedAsInitialised ==
    /\ [](shopLast.op = "none" => cart = << >>)
    /\ [](cartLast.op = "none" => cartItems = initialCartItems)
    /\ [][CartsChangeByCallsOnly]_vars

\* C12 case: both screens were used, mounted again, and no handler was
\* called since.
CartsCreatedAsInitialisedWitness ==
    /\ alert = "Removed"
    /\ shopLast.op = "none" /\ cart = << >>
    /\ cartLast.op = "none" /\ Len(cartItems) = 3

\* The list without its k-th element.
RemoveAt(lines, k) ==
    [i \in 1..(Len(lines) - 1) |-> IF i < k THEN lines[i] ELSE lines[i + 1]]

Max(a, b) == IF a >= b THEN a ELSE b

\* C13: addToCart on a product that has a line raises the quantity of that
\* line by 1 and keeps the number of lines; on a product without a line it
\* appends one line of quantity 1 at the end.  All other lines keep their
\* quantity and position.
AddOrIncrement ==
    shopLast.op = "add"
    => IF HasProduct(shopLast.prev, shopLast.id)
       THEN /\ Len(cart) = Len(shopLast.prev)
            /\ \A i \in 1..Len(cart) :
                  /\ cart[i].product = shopLast.prev[i].product
                  /\ cart[i].quantity =
                        IF cart[i].product.id = shopLast.id
                        THEN shopLast.prev[i].quantity + 1
                        ELSE shopLast.prev[i].quantity
       ELSE /\ Len(cart) = Len(shopLast.prev) + 1
            /\ SubSeq(cart, 1, Len(shopLast.prev)) = shopLast.prev
            /\ cart[Len(cart)].product.id = shopLast.id
            /\ cart[Len(cart)].quantity = 1

\* C13 case: a line was appended behind another line, right after a call
\* that incremented.
AddOrIncrementWitness ==
    /\ shopLast2.op = "add"
    /\ HasProduct(shopLast2.prev, shopLast2.id)
    /\ shopLast.op = "add"
    /\ ~HasProduct(shopLast.prev, shopLast.id)
    /\ Len(cart) = 2

\* C14: removeFromCart / removeItem on an identity that has a line deletes
\* exactly that line: no line has the identity afterwards, there is one line
\* less, and the other lines keep quantity and order.
RemoveDeletesTheLine ==
    /\ (shopLast.op = "remove" /\ HasProduct(shopLast.prev, shopLast.id))
       => /\ ~HasProduct(cart, shopLast.id)
          /\ Len(cart) = Len(shopLast.prev) - 1
          /\ \E k \in ProductLines(shopLast.prev, shopLast.id) :
                cart = RemoveAt(shopLast.prev, k)
    /\ (cartLast.op = "remove" /\ HasId(cartLast.prev, cartLast.id))
       => /\ ~HasId(cartItems, cartLast.id)
          /\ Len(cartItems) = Len(cartLast.prev) - 1
          /\ \E k \in IdLines(cartLast.prev, cartLast.id) :
                cartItems = RemoveAt(cartLast.prev, k)

\* C14 case: both screens removed the first of several lines, a line of
\* quantity 2.
RemoveDeletesTheLineWitness ==
    /\ shopLast.op = "remove"
    /\ Len(shopLast.prev) = 2
    /\ shopLast.prev[1].product.id = shopLast.id
    /\ shopLast.prev[1].quantity = 2
    /\ cartLast.op = "remove"
    /\ Len(cartLast.prev) = 3
    /\ cartLast.prev[1].id = cartLast.id
    /\ cartLast.prev[1].quantity = 2

\* C15: increaseQuantity on an id that has a line raises the quantity of
\* that line by 1; the other lines, the number of lines and their order stay.
IncreaseRaisesOneLine ==
    (cartLast.op = "increase" /\ HasId(cartLast.prev, cartLast.id))
    => /\ Len(cartItems) = Len(cartLast.prev)
       /\ \A i \in 1..Len(cartItems) :
             /\ cartItems[i].id = cartLast.prev[i].id
             /\ cartItems[i].price = cartLast.prev[i].price
             /\ cartItems[i].quantity =
                   IF cartItems[i].id = cartLast.id
                   THEN cartLast.prev[i].quantity + 1
                   ELSE cartLast.prev[i].quantity

\* C15 case: the middle one of three lines was raised.
IncreaseRaisesOneLineWitness ==
    /\ cartLast.op = "increase"
    /\ Len(cartLast.prev) = 3
    /\ cartLast.prev[2].id = cartLast.id
    /\ cartItems[2].quantity = 2

\* C16: CartScreen.decreaseQuantity on an id that has a line of quantity q
\* sets the quantity to max(1, q - 1), keeps the line, and leaves the other
\* lines as they were.
ClampedDecrease ==
    (cartLast.op = "decrease" /\ HasId(cartLast.prev, cartLast.id))
    => /\ Len(cartItems) = Len(cartLast.prev)
       /\ \A i \in 1..Len(cartItems) :
             /\ cartItems[i].id = cartLast.prev[i].id
             /\ cartItems[i].price = cartLast.prev[i].price
             /\ cartItems[i].quantity =
                   IF cartItems[i].id = cartLast.id
                   THEN Max(1, cartLast.prev[i].quantity - 1)
                   ELSE cartLast.prev[i].quantity

\* C16 case: a line above the floor was decreased, next to a line of
\* quantity 2 that stayed.
ClampedDecreaseWitness ==
    /\ cartLast.op = "decrease"
    /\ \E i \in IdLines(cartLast.prev, cartLast.id) :
          cartLast.prev[i].quantity = MaxQty /\ cartItems[i].quantity = MaxQty - 1
    /\ \E i \in 1..Len(cartItems) :
          cartItems[i].id # cartLast.id /\ cartItems[i].quantity = 2

(***************************************************************************)
(* Properties of PaymentsScreen                                            *)
(***************************************************************************)
\* C17: every press of Pay / Place Order enters the processing state, the
\* callback of every timer ends in the Payment Failed state, processing
\* never ends in anything but Payment Failed, and processing does end.
PaymentAlwaysFails ==
    /\ [][ /\ timers' = timers + 1 => loading' /\ ~paymentFailed'
           /\ timers' = timers - 1 => ~loading' /\ paymentFailed'
           /\ (loading /\ ~loading') => paymentFailed' ]_vars
    /\ [](loading => timers > 0)
    /\ loading ~> (~loading /\ paymentFailed)

\* C17 case: Place Order was pressed with cash on delivery selected and a
\* text typed, and the timer has fired.
PaymentAlwaysFailsWitness ==
    /\ selected = "cod"
    /\ payForm.amount # ""
    /\ PayView = "failed"
    /\ timers = 0


(***************************************************************************)
(* Properties of the chat                                                  *)
(***************************************************************************)
\* The last message of a list.
Last(list) == list[Len(list)]

\* A call of handleSend that sent: contact.chat got a message.
Sent == contactsData' # contactsData

\* C18: a handleSend with non-blank input and an existing contact adds the
\* new message once at the end of the displayed messages and once at the
\* end of contact.chat and keeps the earlier messages in their order, and
\* after any sequence of sends the displayed messages and contact.chat are
\* the same list.
SendAppendsOnce ==
    /\ [][ Sent =>
             LET newMessage == Last(contactsData'[contact].chat)
             IN  /\ newMessage.message = inputText
                 /\ contactsData'[contact].chat =
                       Append(contactsData[contact].chat, newMessage)
                 /\ messages' = Append(messages, newMessage) ]_vars
    /\ [](contact # 0 => messages = contactsData[contact].chat)

(***************************************************************************)
(* Properties of the authentication screens                                *)
(***************************************************************************)
\* C19: Login and Signup can be pressed and lead to the home tab whatever
\* their fields hold, the empty fields included, nothing of the fields is
\* left in the state that results, and DEMO APP leads from the welcome
\* screen to the home tab.
AuthScreensAreStubs ==
    /\ route = "login" => ENABLED handleLogin
    /\ route = "signup" => ENABLED handleSignup
    /\ route = "welcome" => ENABLED demoApp
    /\ authLast.op \in { "login", "signup", "demo" } =>
          /\ route = "home"
          /\ credentials = NoCredentials
          /\ form = NoForm

\* Login was pressed with both fields empty and the home tab is shown.
AuthScreensAreStubsWitness ==
    /\ authLast.op = "login"
    /\ authLast.fields = NoCredentials
    /\ route = "home"

(***************************************************************************)
(* Properties of calls that share a render                                 *)
(***************************************************************************)
\* C20: once the screen has rendered, its cart is what the handler calls
\* made since the render before give when each is applied, in the order of
\* the calls, to the result of the call before it.
CallsApplyInIssueOrder ==
    (~batchPending /\ batchScreen # "none") =>
        /\ batchScreen = "shop" => cart = issued
        /\ batchScreen = "cart" => cartItems = issued

\* Two presses of + on the first product of an empty cart, one render.
CallsApplyInIssueOrderWitness ==
    /\ ~batchPending
    /\ batchScreen = "shop"
    /\ Len(batchCalls) = 2
    /\ \A k \in 1..2 : /\ batchCalls[k].op = "addToCart"
                       /\ batchCalls[k].arg.id = 1
    /\ Len(cart) = 1
    /\ cart[1].quantity = 2
    /\ totalCartItems = 2

(***************************************************************************)
(* Properties of the two screens side by side                              *)
(***************************************************************************)
\* The quantity a list holds for a product or an id, 0 without a line.
ShopQuantity(lines, productId) ==
    IF ProductLines(lines, productId) = { } THEN 0
    ELSE lines[CHOOSE i \in ProductLines(lines, productId) : TRUE].quantity

CartQuantity(lines, id) ==
    IF IdLines(lines, id) = { } THEN 0
    ELSE lines[CHOOSE i \in IdLines(lines, id) : TRUE].quantity

\* The last call of either screen was decreaseQuantity, on lines of one
\* and the same quantity.
DecreasedSideBySide ==
    /\ shopLast.op = "decrease"
    /\ cartLast.op = "decrease"
    /\ ShopQuantity(shopLast.prev, shopLast.id) >= 1
    /\ ShopQuantity(shopLast.prev, shopLast.id)
          = CartQuantity(cartLast.prev, cartLast.id)

\* C21: decreaseQuantity called on both screens for lines of the same
\* quantity q leaves both at q - 1 when q >= 2; at q = 1 CartScreen keeps
\* the line at 1 and ShoppingScreen has no line left.  CartScreen never has
\* fewer lines after a decrement.
DecrementPoliciesDiffer ==
    /\ cartLast.op = "decrease" => Len(cartItems) = Len(cartLast.prev)
    /\ DecreasedSideBySide =>
          LET q == ShopQuantity(shopLast.prev, shopLast.id)
              shopAfter == ShopQuantity(cart, shopLast.id)
              cartAfter == CartQuantity(cartItems, cartLast.id)
          IN  /\ q >= 2 => shopAfter = q - 1 /\ cartAfter = q - 1
              /\ q = 1 => /\ shopAfter = 0
                          /\ Len(cart) = Len(shopLast.prev) - 1
                          /\ cartAfter = 1
              /\ (shopAfter = cartAfter) <=> (q >= 2)

\* C21 case: both screens decreased a line that stood at quantity 1, after
\* ShoppingScreen had decreased the same product from a higher quantity.
DecrementPoliciesDifferWitness ==
    /\ DecreasedSideBySide
    /\ ShopQuantity(shopLast.prev, shopLast.id) = 1
    /\ shopLast2.op = "decrease"
    /\ shopLast2.id = shopLast.id
    /\ ShopQuantity(shopLast2.prev, shopLast2.id) >= 2

\* A step that belongs to ShoppingScreen, and one that belongs to
\* CartScreen: a handler call or a mount of the screen.
ShoppingScreenStep == cart' # cart \/ shopLast' # shopLast

CartScreenStep == cartItems' # cartItems \/ cartLast' # cartLast

\* Every line of CartScreen is one of the seeded lines, at some quantity.
CartScreenLinesAreSeeded ==
    \A i \in 1..Len(cartItems) :
        \E k \in 1..Len(initialCartItems) :
            /\ cartItems[i].id = initialCartItems[k].id
            /\ cartItems[i].price = initialCartItems[k].price

\* C22: a step of ShoppingScreen leaves cartItems and totalAmount as they
\* are, a step of CartScreen leaves cart and totalCartItems as they are;
\* CartScreen holds seeded lines only, whatever ShoppingScreen's cart
\* holds, and its total is the total of its own lines.
CartsAreIndependent ==
    /\ [][ /\ ShoppingScreenStep =>
                cartItems' = cartItems /\ totalAmount' = totalAmount
           /\ CartScreenStep =>
                cart' = cart /\ totalCartItems' = totalCartItems ]_vars
    /\ [](CartScreenLinesAreSeeded)
    /\ [](totalAmount = totalAmountOf(cartItems))

\* C22 case: ShoppingScreen holds two lines after an add, CartScreen has
\* lost a line by removeItem, and each screen shows its own totals.
CartsAreIndependentWitness ==
    /\ shopLast.op = "add"
    /\ Len(cart) = 2
    /\ totalCartItems = 3
    /\ cartLast.op = "remove"
    /\ Len(cartItems) = 2
    /\ totalAmount = totalAmountOf(cartItems)

\* The ids of a list of messages are pairwise distinct.
IdsDistinct(list) ==
    \A i, j \in 1..Len(list) : list[i].id = list[j].id => i = j

\* C23: in every chat, stored or displayed, the message ids are pairwise
\* distinct after any sequence of sends.
MessageIdsDistinct ==
    /\ \A c \in 1..Len(contactsData) : IdsDistinct(contactsData[c].chat)
    /\ IdsDistinct(messages)

\* The list starts with the elements of another list, in their order.
StartsWith(list, head) ==
    /\ Len(list) >= Len(head)
    /\ SubSeq(list, 1, Len(head)) = head

\* ChatScreen is mounted for a contact that exists.
Opened ==
    /\ chatId = "none"
    /\ chatId' # "none"
    /\ FindContact(contactsData, chatId') # 0

\* C24: a send changes the chat of the open contact and of no other; every
\* chat keeps the seeded messages first and what was sent after them in the
\* order of the sends; opening a chat shows all of it.
SentStaysInThread ==
    /\ [][ Sent => \A c \in 1..Len(contactsData) :
                      c # contact => contactsData'[c] = contactsData[c] ]_vars
    /\ [][ \A c \in 1..Len(contactsData) :
              StartsWith(contactsData'[c].chat, contactsData[c].chat) ]_vars
    /\ [](\A c \in 1..Len(contactsData) :
              StartsWith(contactsData[c].chat, CONTACTS_DATA[c].chat))
    /\ [][ Opened => messages' =
              contactsData[FindContact(contactsData, chatId')].chat ]_vars

\* C24 case: the chat of the first contact, opened again, shows the two
\* messages sent to it earlier; the second contact has its seeded chat.
SentStaysInThreadWitness ==
    /\ aliased
    /\ chatId = CONTACTS_DATA[1].id
    /\ messages = contactsData[1].chat
    /\ Len(messages) = Len(CONTACTS_DATA[1].chat) + 2
    /\ messages[3].message = "hi"
    /\ messages[4].message = " hi "
    /\ contactsData[2].chat = CONTACTS_DATA[2].chat

\* C25: a handleSend called with empty or whitespace-only input, or while
\* no contact is found, leaves the displayed messages, every contact.chat
\* and the input text as they were.
BlankSendIsNoOp ==
    ( /\ sendLast.op = "send"
      /\ Trim(sendLast.text) = "" \/ ~sendLast.found )
    => /\ messages = sendLast.messages
       /\ contactsData = sendLast.data
       /\ inputText = sendLast.text

\* C25 case: send was pressed on whitespace-only input, in a chat that
\* already shows a sent message.
BlankSendIsNoOpWitness ==
    /\ sendLast.op = "send"
    /\ sendLast.text = " "
    /\ sendLast.found
    /\ Len(messages) > Len(CONTACTS_DATA[contact].chat)

(***************************************************************************)
(* Properties of the payment page, continued                               *)
(***************************************************************************)
\* C26: loading and paymentFailed are never both true, and paymentFailed
\* becomes true only by the timer of a Pay press that had no answer yet,
\* which is then answered; this covers a second Pay press before the
\* spinner is shown and Try Again pressed while a timer is still pending.
FailedOnlyAfterPay ==
    /\ [](~(loading /\ paymentFailed))
    /\ [][ (~paymentFailed /\ paymentFailed') =>
              /\ timers > 0
              /\ timers' = timers - 1
              /\ ~loading' ]_vars
    /\ [][ timers' > timers => loading' /\ ~paymentFailed' ]_vars

\* C26 case: Pay was pressed twice, Try Again was pressed while the timer
\* of the second press was pending, and that timer has brought the Payment
\* Failed view back.
FailedOnlyAfterPayWitness ==
    /\ payEvents = << "retry", "timer" >>
    /\ PayView = "failed"
    /\ timers = 0

(***************************************************************************)
(* Properties of ForgotPasswordScreen                                      *)
(***************************************************************************)
\* The fields pass the checks of handleReset.
ResetAccepted(fields) ==
    /\ fields.email # ""
    /\ fields.newPassword # ""
    /\ fields.confirmPassword # ""
    /\ fields.newPassword = fields.confirmPassword

\* C27: handleReset shows Success and leads to Login when the three fields
\* are non-empty and the two passwords are equal, and in that case only;
\* otherwise it shows Error, the screen stays and the fields are as they
\* were.
ResetChecksFields ==
    resetLast.op = "reset" =>
        IF ResetAccepted(resetLast.fields)
        THEN alert = "Success" /\ route = "login"
        ELSE /\ alert = "Error"
             /\ route = "forgot"
             /\ resetForm = resetLast.fields

\* C27 case: Reset Password was pressed with all fields filled and two
\* different passwords.
ResetChecksFieldsWitness ==
    /\ resetLast.op = "reset"
    /\ resetLast.fields.email # ""
    /\ resetLast.fields.newPassword = "a"
    /\ resetLast.fields.confirmPassword = "b"
    /\ route = "forgot"
    /\ alert = "Error"

(***************************************************************************)
(* Properties of FAQScreen                                                 *)
(***************************************************************************)
\* The entries a list of indexes shows expanded.
Expanded(list) == { list[k] : k \in 1..Len(list) }

\* C28: toggleExpand(i) makes entry i expanded iff it was collapsed, keeps
\* every other entry as it was, gives the expanded entries of before when
\* called twice in a row for the same entry, and expandedIndexes never
\* holds an index twice.
ToggleFlipsOneEntry ==
    /\ \A k, l \in 1..Len(expandedIndexes) :
          expandedIndexes[k] = expandedIndexes[l] => k = l
    /\ faqLast.op = "toggle" =>
          /\ faqLast.index \in Expanded(expandedIndexes)
                <=> faqLast.index \notin Expanded(faqLast.prev)
          /\ \A j \in FaqIndexes \ { faqLast.index } :
                j \in Expanded(expandedIndexes) <=> j \in Expanded(faqLast.prev)
    /\ ( /\ faqLast.op = "toggle"
         /\ faqLast.before.op = "toggle"
         /\ faqLast.before.index = faqLast.index )
       => Expanded(expandedIndexes) = Expanded(faqLast.before.prev)

\* C28 case: the first of three expanded entries was toggled twice; the
\* same entries are expanded, the index has moved to the end of the list.
ToggleFlipsOneEntryWitness ==
    /\ faqLast.op = "toggle"
    /\ faqLast.before.op = "toggle"
    /\ faqLast.before.index = faqLast.index
    /\ Len(expandedIndexes) = 3
    /\ faqLast.before.prev[1] = faqLast.index
    /\ expandedIndexes[3] = faqLast.index

(***************************************************************************)
(* Properties of what ShoppingScreen and CartScreen render                 *)
(***************************************************************************)
\* C29: the badge of the cart icon is shown exactly when cart has a line;
\* the card of a product shows the quantity controls exactly when cart has
\* a line of the product, and the quantity shown is that of the line and
\* at least 1.
BadgeAndControlsFollowCart ==
    /\ cartBadgeShown <=> Len(cart) >= 1
    /\ \A item \in Products :
          /\ inCart(item) <=> ProductLines(cart, item.id) # { }
          /\ inCart(item) =>
                /\ shownQuantity(item) >= 1
                /\ \A i \in ProductLines(cart, item.id) :
                      shownQuantity(item) = cart[i].quantity

\* C29 case: a decrement has just taken the line of one product away, the
\* other product has its line; the badge is shown, the controls are shown
\* for the second product only.
BadgeAndControlsFollowCartWitness ==
    /\ shopLast.op = "decrease"
    /\ Len(shopLast.prev) = 2
    /\ Len(cart) = 1
    /\ cartBadgeShown
    /\ \E item \in Products : inCart(item) /\ shownQuantity(item) = 2
    /\ \E item \in Products : ~inCart(item)

\* C30: the Payment button of CartScreen can be pressed exactly when the
\* cart has a line, so the payment page is never pushed from an empty
\* cart; the cart loses its last line only in removeItem, and
\* decreaseQuantity leaves the number of lines as it was.
PaymentNeedsLines ==
    /\ [](paymentDisabled <=> cartItems = << >>)
    /\ []((ENABLED handlePayment) <=> cartItems # << >>)
    /\ [](paymentPage.opened => paymentPage.lines # << >>)
    /\ [][(cartItems # << >> /\ cartItems' = << >>)
             => cartLast'.op = "remove"]_vars
    /\ [][(cartLast'.op = "decrease" /\ cartItems' # cartItems)
             => Len(cartItems') = Len(cartItems)]_vars

\* C30 case: the payment page was pushed from a cart of one line, and
\* removeItem has since taken that line: the button is disabled.
PaymentNeedsLinesWitness ==
    /\ paymentPage.opened
    /\ Len(paymentPage.lines) = 1
    /\ cartItems = << >>
    /\ cartLast.op = "remove"
    /\ Len(cartLast.prev) = 1
    /\ paymentDisabled

====
